---- MODULE Spec2Model ----
(***************************************************************************)
(* Model of the OTP lifecycle engine (app/services/otp.py, app/models/     *)
(* otp.py) and of the signed-token flows for e-mail verification and       *)
(* password reset (app/utils/security.py, app/services/auth.py,            *)
(* app/routes/auth.py) of the fAIk backend.                                *)
(*                                                                         *)
(* Time is an integer clock.  One clock unit stands for 15 minutes; every  *)
(* duration of the code is expressed in that unit.  Two calls made at the  *)
(* same clock value read the same datetime.utcnow().                       *)
(***************************************************************************)
EXTENDS Integers, Naturals, FiniteSets, Sequences, TLC

\* ---------------------------------------------------------------- bounds
MaxOtps == 2
MaxTicks == 2
MaxRateOtps == 6
MaxRateTicks == 1
MaxTokens == 2
MaxTokTicks == 1
NumSessions == 2
MaxConcOtps == 3
MaxVerifyOtps == 1

\* ------------------------------------------------------ program constants
ExpiryUnits == 1
HourUnits == 4
MaxOtpsPerHour == 5
MaxAttempts == 3
DaysOldUnits == 672
DayUnits == 96

Emails == {"a@x.com"}
Purposes == {"password_reset", "email_verification"}
Codes == {"111111", "222222"}

NoTime == -1
None == "-"

\* What the database session does to the statements of a call: nothing;
\* the first statement raises and the later ones run; every statement raises;
\* the statements run and db.commit() raises.
Faults == {"none", "query", "down", "commit"}
\* Whether the SMTP server takes a message or send_email raises EmailError.
Mails == {"up", "down"}

VARIABLES store, now, nextId, last, hist, obs, users, issued, tok, spent, txn,
          fault, mail, status, resp

vars == <<store, now, nextId, last, hist, obs, users, issued, tok, spent, txn,
          fault, mail, status, resp>>

otpVars == <<store, nextId>>
tokenVars == <<users, issued, tok, spent>>
seqVars == <<last, hist, obs>>
\* The environment of a call (what the database session and the SMTP server
\* do to it), the projection the last get_otp_status call returned and the
\* HTTP response of the last request to an OTP route.
envVars == <<fault, mail, status, resp>>

\* The first query of the call raises.
QueryFails == fault \in {"query", "down"}

\* ------------------------------------------------------------- OTP model
\* One row of the "otps" table.
OTP(id, email, code, purpose, expires_at, created_at) ==
    [id |-> id, email |-> email, otp_code |-> code, purpose |-> purpose,
     is_used |-> FALSE, attempts |-> 0, max_attempts |-> MaxAttempts,
     created_at |-> created_at, expires_at |-> expires_at, used_at |-> NoTime]

\* is_expired that never reports expiry.
is_expired_never(otp, t) == FALSE

is_expired(otp, t) == t > otp.expires_at

is_max_attempts_exceeded(otp) == otp.attempts >= otp.max_attempts

\* increment_attempts leaving the counter as it is.
increment_attempts_noop(otp) == otp

increment_attempts(otp) == [otp EXCEPT !.attempts = @ + 1]

\* mark_as_used forgetting the flag.
mark_as_used_at_only(otp, t) == [otp EXCEPT !.used_at = t]

mark_as_used(otp, t) == [otp EXCEPT !.is_used = TRUE, !.used_at = t]

\* The rows an unused-OTP query for a key returns.
UnusedOtps(rows, email, purpose) ==
    {r \in rows : r.email = email /\ r.purpose = purpose /\ r.is_used = FALSE}

\* .first() of a query without ORDER BY: the row with the smallest id.
First(rows) == CHOOSE r \in rows : \A q \in rows : r.id <= q.id

\* check_rate_limit whose except branch refuses the request.
check_rate_limit_fail_closed(rows, email, purpose, t) ==
    LET one_hour_ago == t - HourUnits
        recent_otps == Cardinality({r \in rows : /\ r.email = email
                                                 /\ r.purpose = purpose
                                                 /\ r.created_at >= one_hour_ago})
    IN  IF QueryFails THEN FALSE ELSE recent_otps < MaxOtpsPerHour

\* The count raises when the session fails its first statement; the except
\* branch then allows the request.
check_rate_limit(rows, email, purpose, t) ==
    LET one_hour_ago == t - HourUnits
        recent_otps == Cardinality({r \in rows : /\ r.email = email
                                                 /\ r.purpose = purpose
                                                 /\ r.created_at >= one_hour_ago})
    IN  IF QueryFails THEN TRUE ELSE recent_otps < MaxOtpsPerHour

\* What the last call returned and the line it logged.
Last(op, email, purpose, code, result, log, count) ==
    [op |-> op, email |-> email, purpose |-> purpose, code |-> code,
     result |-> result, log |-> log, count |-> count]

NoHist == [issues |-> 0, since |-> 0, wrongs |-> 0]

\* Per key, what a client of the engine has seen since the last successful
\* create_otp: the code it was sent, and whether a verify_otp returned true.
NoObs == [code |-> None, won |-> FALSE]

ObsCreate(email, purpose, code, ok) ==
    IF ok THEN [obs EXCEPT ![<<email, purpose>>] = [code |-> code, won |-> FALSE]]
    ELSE obs

ObsVerify(email, purpose, result) ==
    IF result = "true" THEN [obs EXCEPT ![<<email, purpose>>].won = TRUE]
    ELSE obs

\* Bookkeeping of the calls made in a row for the key of the last call:
\* how many create_otp calls (counted up to MaxOtpsPerHour + 1), since when,
\* and how many wrong-code verify_otp calls followed a successful create_otp
\* (MaxAttempts + 1 stands for the call made after MaxAttempts wrong ones).
HistCreate(email, purpose) ==
    LET same == last.op = "create_otp" /\ last.email = email /\ last.purpose = purpose
        more == IF hist.issues > MaxOtpsPerHour THEN hist.issues ELSE hist.issues + 1
    IN  [issues |-> IF same THEN more ELSE 1,
         since  |-> IF same THEN hist.since ELSE now,
         wrongs |-> 0]

HistVerify(email, purpose, code) ==
    LET same == /\ last.email = email /\ last.purpose = purpose
                /\ \/ last.op = "create_otp" /\ last.result = "ok"
                   \/ last.op = "verify_otp" /\ hist.wrongs \in 1..MaxAttempts
    IN  IF same /\ hist.wrongs = MaxAttempts
          THEN [NoHist EXCEPT !.wrongs = MaxAttempts + 1]
        ELSE IF same /\ code # obs[<<email, purpose>>].code
          THEN [NoHist EXCEPT !.wrongs = hist.wrongs + 1]
        ELSE NoHist

\* create_otp without the delete of the key's unused rows.
create_otp_keeps_old(email, purpose, code) ==
    /\ IF ~check_rate_limit(store, email, purpose, now)
         THEN /\ last' = Last("create_otp", email, purpose, None,
                              "RateLimitError", "rate_limit_exceeded", 0)
              /\ UNCHANGED <<store, nextId>>
         ELSE /\ store' = store \cup {OTP(nextId, email, code, purpose,
                                          now + ExpiryUnits, now)}
              /\ nextId' = nextId + 1
              /\ last' = Last("create_otp", email, purpose, code,
                              "ok", "created", 0)
    /\ UNCHANGED now

\* create_otp with the delete moved in front of the rate check.
create_otp_delete_first(email, purpose, code) ==
    LET kept == store \ UnusedOtps(store, email, purpose) IN
    /\ IF ~check_rate_limit(store, email, purpose, now)
         THEN /\ last' = Last("create_otp", email, purpose, None,
                              "RateLimitError", "rate_limit_exceeded", 0)
              /\ store' = kept
              /\ UNCHANGED nextId
         ELSE /\ store' = kept \cup {OTP(nextId, email, code, purpose,
                                         now + ExpiryUnits, now)}
              /\ nextId' = nextId + 1
              /\ last' = Last("create_otp", email, purpose, code,
                              "ok", "created", 0)
    /\ UNCHANGED now

\* create_otp deleting the unused rows of the address for every purpose.
create_otp_any_purpose(email, purpose, code) ==
    /\ IF ~check_rate_limit(store, email, purpose, now)
         THEN /\ last' = Last("create_otp", email, purpose, None,
                              "RateLimitError", "rate_limit_exceeded", 0)
              /\ UNCHANGED <<store, nextId>>
         ELSE /\ store' = {r \in store : r.email # email \/ r.is_used}
                            \cup {OTP(nextId, email, code, purpose,
                                      now + ExpiryUnits, now)}
              /\ nextId' = nextId + 1
              /\ last' = Last("create_otp", email, purpose, code,
                              "ok", "created", 0)
    /\ UNCHANGED now

\* create_otp whose delete stays when the commit fails (no rollback).
create_otp_no_rollback(email, purpose, code) ==
    /\ IF ~check_rate_limit(store, email, purpose, now)
         THEN /\ last' = Last("create_otp", email, purpose, None,
                              "RateLimitError", "rate_limit_exceeded", 0)
              /\ UNCHANGED <<store, nextId>>
       ELSE IF fault = "down"
         THEN /\ last' = Last("create_otp", email, purpose, None,
                              "DatabaseError", "db_error", 0)
              /\ UNCHANGED <<store, nextId>>
       ELSE IF fault = "commit"
         THEN /\ last' = Last("create_otp", email, purpose, None,
                              "DatabaseError", "commit_failed", 0)
              /\ store' = store \ UnusedOtps(store, email, purpose)
              /\ UNCHANGED nextId
         ELSE /\ store' = (store \ UnusedOtps(store, email, purpose))
                            \cup {OTP(nextId, email, code, purpose,
                                      now + ExpiryUnits, now)}
              /\ nextId' = nextId + 1
              /\ last' = Last("create_otp", email, purpose, code,
                              "ok", "created", 0)
    /\ UNCHANGED now

create_otp(email, purpose, code) ==
    /\ IF ~check_rate_limit(store, email, purpose, now)
         THEN /\ last' = Last("create_otp", email, purpose, None,
                              "RateLimitError", "rate_limit_exceeded", 0)
              /\ UNCHANGED <<store, nextId>>
       ELSE IF fault = "down"
         THEN /\ last' = Last("create_otp", email, purpose, None,
                              "DatabaseError", "db_error", 0)
              /\ UNCHANGED <<store, nextId>>
       ELSE IF fault = "commit"
         THEN /\ last' = Last("create_otp", email, purpose, None,
                              "DatabaseError", "commit_failed", 0)
              /\ UNCHANGED <<store, nextId>>
         ELSE /\ store' = (store \ UnusedOtps(store, email, purpose))
                            \cup {OTP(nextId, email, code, purpose,
                                      now + ExpiryUnits, now)}
              /\ nextId' = nextId + 1
              /\ last' = Last("create_otp", email, purpose, code,
                              "ok", "created", 0)
    /\ UNCHANGED now

verify_otp(email, otp_code, purpose) ==
    LET found == {r \in UnusedOtps(store, email, purpose) : r.otp_code = otp_code}
        L(result, log) == Last("verify_otp", email, purpose, otp_code, result, log, 0)
    IN  /\ UNCHANGED <<now, nextId>>
        /\ IF QueryFails
             THEN /\ last' = L("DatabaseError", "db_error")
                  /\ UNCHANGED store
           ELSE IF found = {}
             THEN /\ last' = L("false", "no_valid_otp")
                  /\ UNCHANGED store
           ELSE IF fault = "commit"
             THEN /\ last' = L("DatabaseError", "commit_failed")
                  /\ UNCHANGED store
             ELSE LET otp == First(found) IN
                  IF is_expired(otp, now)
                    THEN /\ store' = store \ {otp}
                         /\ last' = L("false", "expired")
                  ELSE IF is_max_attempts_exceeded(otp)
                    THEN /\ store' = store \ {otp}
                         /\ last' = L("false", "max_attempts")
                  ELSE LET inc == increment_attempts(otp) IN
                       IF inc.otp_code = otp_code
                         THEN /\ store' = (store \ {otp}) \cup {mark_as_used(inc, now)}
                              /\ last' = L("true", "verified")
                         ELSE /\ store' = (store \ {otp}) \cup {inc}
                              /\ last' = L("false", "wrong_code")

\* get_otp_status answering a failed lookup with a full attempts budget.
get_otp_status_full_budget(rows, email, purpose, t) ==
    LET mine == {r \in rows : r.email = email /\ r.purpose = purpose}
        newest == CHOOSE r \in mine : \A q \in mine :
                      \/ r.created_at > q.created_at
                      \/ r.created_at = q.created_at /\ r.id >= q.id
        missing == [exists |-> FALSE, is_used |-> FALSE, is_expired |-> FALSE,
                    attempts_remaining |-> MaxAttempts, expires_at |-> NoTime]
        remaining == newest.max_attempts - newest.attempts
    IN  IF QueryFails THEN missing
        ELSE IF mine = {} THEN missing
        ELSE [exists |-> TRUE, is_used |-> newest.is_used,
              is_expired |-> is_expired(newest, t),
              attempts_remaining |-> IF remaining > 0 THEN remaining ELSE 0,
              expires_at |-> newest.expires_at]

\* The projection get_otp_status returns for a key; the except branch
\* returns the projection of a key without rows.
get_otp_status(rows, email, purpose, t) ==
    LET mine == {r \in rows : r.email = email /\ r.purpose = purpose}
        newest == CHOOSE r \in mine : \A q \in mine :
                      \/ r.created_at > q.created_at
                      \/ r.created_at = q.created_at /\ r.id >= q.id
        missing == [exists |-> FALSE, is_used |-> FALSE, is_expired |-> FALSE,
                    attempts_remaining |-> 0, expires_at |-> NoTime]
        remaining == newest.max_attempts - newest.attempts
    IN  IF QueryFails THEN missing
        ELSE IF mine = {} THEN missing
        ELSE [exists |-> TRUE, is_used |-> newest.is_used,
              is_expired |-> is_expired(newest, t),
              attempts_remaining |-> IF remaining > 0 THEN remaining ELSE 0,
              expires_at |-> newest.expires_at]

\* cleanup_expired_otps that spares the used rows.
cleanup_expired_otps_unused_only ==
    LET expired == {r \in store : r.expires_at < now /\ ~r.is_used}
    IN  /\ IF fault # "none"
             THEN /\ last' = Last("cleanup_expired_otps", None, None, None,
                                  "DatabaseError", "db_error", 0)
                  /\ UNCHANGED store
             ELSE /\ store' = store \ expired
                  /\ last' = Last("cleanup_expired_otps", None, None, None, "ok",
                                  "cleanup", Cardinality(expired))
        /\ UNCHANGED <<now, nextId>>

cleanup_expired_otps ==
    LET expired == {r \in store : r.expires_at < now}
    IN  /\ IF fault # "none"
             THEN /\ last' = Last("cleanup_expired_otps", None, None, None,
                                  "DatabaseError", "db_error", 0)
                  /\ UNCHANGED store
             ELSE /\ store' = store \ expired
                  /\ last' = Last("cleanup_expired_otps", None, None, None, "ok",
                                  "cleanup", Cardinality(expired))
        /\ UNCHANGED <<now, nextId>>

cleanup_used_otps ==
    LET cutoff_date == now - DaysOldUnits
        used == {r \in store : r.is_used = TRUE /\ r.used_at < cutoff_date}
    IN  /\ IF fault # "none"
             THEN /\ last' = Last("cleanup_used_otps", None, None, None, "ok",
                                  "cleanup_failed", 0)
                  /\ UNCHANGED store
             ELSE /\ store' = store \ used
                  /\ last' = Last("cleanup_used_otps", None, None, None, "ok",
                                  "cleanup", Cardinality(used))
        /\ UNCHANGED <<now, nextId>>

\* ------------------------------------------------------ signed-token model
UserEmails == {"a@x.com", "b@x.com"}
Passwords == {"pw1", "pw2"}

\* A JWT as the fields its verifier reads: the claims and whether the
\* signature was made with SECRET_KEY.  Two tokens with the same claims are
\* the same string (HS256 is deterministic).
NoToken == [sub |-> None, purpose |-> None, exp |-> NoTime, sig |-> "none"]

create_access_token(sub, purpose, expires_delta, t) ==
    [sub |-> sub, purpose |-> purpose, exp |-> t + expires_delta, sig |-> "valid"]

\* The payload, or NoToken where jwt.decode raises JWTError.
decode_access_token(token, t) ==
    IF token.sig = "valid" /\ ~(token.exp < t) THEN token ELSE NoToken

generate_verification_token(email, t) ==
    create_access_token(email, "email_verification", DayUnits, t)

verify_verification_token(token, t) ==
    LET payload == decode_access_token(token, t)
    IN  IF payload = NoToken THEN None
        ELSE IF payload.purpose # "email_verification" THEN None
        ELSE payload.sub

generate_password_reset_token(email, t) ==
    create_access_token(email, "password_reset", HourUnits, t)

\* verify_password_reset_token without the purpose check.
verify_password_reset_token_any_purpose(token, t) ==
    LET payload == decode_access_token(token, t)
    IN  IF payload = NoToken THEN None ELSE payload.sub

verify_password_reset_token(token, t) ==
    LET payload == decode_access_token(token, t)
    IN  IF payload = NoToken THEN None
        ELSE IF payload.purpose # "password_reset" THEN None
        ELSE payload.sub

get_password_hash(password) == <<"bcrypt", password>>

verify_password(plain_password, hashed_password) ==
    hashed_password = get_password_hash(plain_password)

\* Tokens signed with another key, one per subject and purpose.
Forged ==
    {[sub |-> e, purpose |-> p, exp |-> DaysOldUnits, sig |-> "forged"] :
        e \in UserEmails, p \in {"email_verification", "password_reset"}}

\* One row of the "users" table.
User(email, password) ==
    [email |-> email, hashed_password |-> get_password_hash(password),
     is_active |-> TRUE, is_verified |-> FALSE, is_email_verified |-> FALSE,
     verification_token |-> NoToken, verification_token_expires |-> NoTime,
     reset_password_token |-> NoToken, reset_password_token_expires |-> NoTime]

UserByEmail(email) == {u \in users : u.email = email}

\* Tokens reset_password accepted, and those of them that a later
\* password-reset request generated again.
SpentIssue(token) ==
    IF token \in spent.used THEN [spent EXCEPT !.reissued = @ \cup {token}] ELSE spent

SpentUse(token) ==
    [used |-> spent.used \cup {token}, reissued |-> spent.reissued \ {token}]

\* The rows create_otp leaves in the table (none added when rate limited).
create_otp_rows(rows, id, email, purpose, code, t) ==
    IF ~check_rate_limit(rows, email, purpose, t) THEN rows
    ELSE (rows \ UnusedOtps(rows, email, purpose))
            \cup {OTP(id, email, code, purpose, t + ExpiryUnits, t)}

\* create_user with the sending of the OTP outside the inner try: the
\* EmailError reaches the outer handler.
create_user_mail_raises(email, password, code) ==
    /\ tok' = NoToken
    /\ UNCHANGED <<now, issued, spent, hist, obs, txn, envVars>>
    /\ IF UserByEmail(email) # {}
         THEN /\ last' = Last("create_user", email, None, None,
                              "ConflictError", "already_registered", 0)
              /\ UNCHANGED <<users, store, nextId>>
         ELSE /\ users' = users \cup {User(email, password)}
              /\ store' = create_otp_rows(store, nextId, email,
                                          "email_verification", code, now)
              /\ nextId' = IF store' = store THEN nextId ELSE nextId + 1
              /\ last' = IF store' = store
                           THEN Last("create_user", email, None, None,
                                     "ok", "otp_refused", 0)
                         ELSE IF mail = "down"
                           THEN Last("create_user", email, None, None,
                                     "DatabaseError", "otp_send_failed", 0)
                         ELSE Last("create_user", email, None, None,
                                   "ok", "created", 0)

\* create_user; the OTP it creates and sends is best effort: an exception of
\* create_otp or of send_otp_email is logged and dropped.
create_user(email, password, code) ==
    /\ tok' = NoToken
    /\ UNCHANGED <<now, issued, spent, hist, obs, txn, envVars>>
    /\ IF UserByEmail(email) # {}
         THEN /\ last' = Last("create_user", email, None, None,
                              "ConflictError", "already_registered", 0)
              /\ UNCHANGED <<users, store, nextId>>
         ELSE /\ users' = users \cup {User(email, password)}
              /\ store' = create_otp_rows(store, nextId, email,
                                          "email_verification", code, now)
              /\ nextId' = IF store' = store THEN nextId ELSE nextId + 1
              /\ last' = Last("create_user", email, None, None, "ok",
                              IF store' = store THEN "otp_refused"
                              ELSE IF mail = "down" THEN "otp_send_failed"
                              ELSE "created", 0)

\* POST /auth/login.
login(email, password) ==
    LET found == UserByEmail(email)
        user == CHOOSE u \in found : TRUE
        access_token == create_access_token(email, None, DayUnits, now)
    IN  /\ tok' = NoToken
        /\ UNCHANGED <<now, users, spent, hist, obs, otpVars, txn, envVars>>
        /\ IF found = {} \/ ~verify_password(password, user.hashed_password)
             THEN /\ last' = Last("login", email, None, None,
                                  "AuthenticationError", "bad_credentials", 0)
                  /\ UNCHANGED issued
           ELSE IF ~user.is_active
             THEN /\ last' = Last("login", email, None, None,
                                  "AuthenticationError", "inactive", 0)
                  /\ UNCHANGED issued
           ELSE /\ last' = Last("login", email, None, None, "ok", "token", 0)
                /\ issued' = issued \cup {access_token}

\* POST /auth/resend-verification.
resend_verification(email_address) ==
    LET found == UserByEmail(email_address)
        user == CHOOSE u \in found : TRUE
        new_token == generate_verification_token(email_address, now)
        L(result, log) == Last("resend_verification", email_address, None, None,
                               result, log, 0)
    IN  /\ tok' = NoToken
        /\ UNCHANGED <<now, spent, hist, obs, otpVars, txn, envVars>>
        /\ IF found = {}
             THEN last' = L("NotFoundError", "no_user") /\ UNCHANGED <<users, issued>>
           ELSE IF user.is_verified
             THEN last' = L("ConflictError", "already_verified")
                  /\ UNCHANGED <<users, issued>>
           ELSE /\ users' = (users \ {user}) \cup
                      {[user EXCEPT !.verification_token = new_token,
                                    !.verification_token_expires = now + DayUnits]}
                /\ issued' = issued \cup {new_token}
                /\ last' = L("ok", "sent")

\* forgot_password answering an unknown address with NotFoundError.
forgot_password_reveals(email_address) ==
    LET found == UserByEmail(email_address)
        user == CHOOSE u \in found : TRUE
        reset_token == generate_password_reset_token(email_address, now)
        L(result, log) == Last("forgot_password", email_address, None, None,
                               result, log, 0)
    IN  /\ tok' = NoToken
        /\ UNCHANGED <<now, hist, obs, otpVars, txn, envVars>>
        /\ IF found # {}
             THEN /\ users' = (users \ {user}) \cup
                        {[user EXCEPT !.reset_password_token = reset_token,
                                      !.reset_password_token_expires = now + HourUnits]}
                  /\ issued' = issued \cup {reset_token}
                  /\ spent' = SpentIssue(reset_token)
                  /\ last' = L("ok", "sent")
             ELSE /\ last' = L("NotFoundError", "no_user")
                  /\ UNCHANGED <<users, issued, spent>>

\* POST /auth/forgot-password.
forgot_password(email_address) ==
    LET found == UserByEmail(email_address)
        user == CHOOSE u \in found : TRUE
        reset_token == generate_password_reset_token(email_address, now)
        L(log) == Last("forgot_password", email_address, None, None, "ok", log, 0)
    IN  /\ tok' = NoToken
        /\ UNCHANGED <<now, hist, obs, otpVars, txn, envVars>>
        /\ IF found # {}
             THEN /\ users' = (users \ {user}) \cup
                        {[user EXCEPT !.reset_password_token = reset_token,
                                      !.reset_password_token_expires = now + HourUnits]}
                  /\ issued' = issued \cup {reset_token}
                  /\ spent' = SpentIssue(reset_token)
                  /\ last' = L("sent")
             ELSE /\ last' = L("no_user")
                  /\ UNCHANGED <<users, issued, spent>>

\* verify_email without the check of the verified flag.
verify_email_again(token) ==
    LET email == verify_verification_token(token, now)
        found == UserByEmail(email)
        user == CHOOSE u \in found : TRUE
        L(result, log) == Last("verify_email", email, None, None, result, log, 0)
    IN  /\ tok' = token
        /\ UNCHANGED <<now, issued, spent, hist, obs, otpVars, txn, envVars>>
        /\ IF email = None
             THEN last' = L("TokenError", "invalid_or_expired") /\ UNCHANGED users
           ELSE IF found = {}
             THEN last' = L("NotFoundError", "no_user") /\ UNCHANGED users
           ELSE /\ users' = (users \ {user}) \cup
                      {[user EXCEPT !.is_verified = TRUE,
                                    !.verification_token = NoToken,
                                    !.verification_token_expires = NoTime]}
                /\ last' = L("ok", "verified")

\* request_password_reset; an exception of send_password_reset_email is
\* logged and dropped.
request_password_reset(email) ==
    LET found == UserByEmail(email)
        user == CHOOSE u \in found : TRUE
        reset_token == generate_password_reset_token(email, now)
        L(result, log) == Last("request_password_reset", email, None, None,
                               result, log, 0)
    IN  /\ tok' = NoToken
        /\ UNCHANGED <<now, hist, obs, otpVars, txn, envVars>>
        /\ IF found = {}
             THEN /\ last' = L("false", "no_user")
                  /\ UNCHANGED <<users, issued, spent>>
             ELSE /\ users' = (users \ {user}) \cup
                        {[user EXCEPT !.reset_password_token = reset_token,
                                      !.reset_password_token_expires = now + HourUnits]}
                  /\ issued' = issued \cup {reset_token}
                  /\ spent' = SpentIssue(reset_token)
                  /\ last' = L("true", IF mail = "down" THEN "email_failed" ELSE "sent")

\* The dependency of GET /auth/me: the user of a bearer token.
get_current_user(token) ==
    LET payload == decode_access_token(token, now)
        email == payload.sub
        found == UserByEmail(email)
        L(e, result, log) == Last("get_current_user", e, None, None, result, log, 0)
    IN  /\ tok' = token
        /\ UNCHANGED <<now, users, issued, spent, hist, obs, otpVars, txn, envVars>>
        /\ IF payload = NoToken
             THEN last' = L(None, "AuthenticationError", "invalid_token")
           ELSE IF email = None
             THEN last' = L(None, "AuthenticationError", "no_email")
           ELSE IF found = {}
             THEN last' = L(email, "AuthenticationError", "no_user")
           ELSE last' = L(email, "ok", "user")

verify_email(token) ==
    LET email == verify_verification_token(token, now)
        found == UserByEmail(email)
        user == CHOOSE u \in found : TRUE
        L(result, log) == Last("verify_email", email, None, None, result, log, 0)
    IN  /\ tok' = token
        /\ UNCHANGED <<now, issued, spent, hist, obs, otpVars, txn, envVars>>
        /\ IF email = None
             THEN last' = L("TokenError", "invalid_or_expired") /\ UNCHANGED users
           ELSE IF found = {}
             THEN last' = L("NotFoundError", "no_user") /\ UNCHANGED users
           ELSE IF user.is_verified
             THEN last' = L("ConflictError", "already_verified") /\ UNCHANGED users
           ELSE /\ users' = (users \ {user}) \cup
                      {[user EXCEPT !.is_verified = TRUE,
                                    !.verification_token = NoToken,
                                    !.verification_token_expires = NoTime]}
                /\ last' = L("ok", "verified")

\* reset_password that leaves the mirrored token in place.
reset_password_keeps_token(token, new_password) ==
    LET email == verify_password_reset_token(token, now)
        found == UserByEmail(email)
        user == CHOOSE u \in found : TRUE
        L(result, log) == Last("reset_password", email, None, None, result, log, 0)
    IN  /\ tok' = token
        /\ UNCHANGED <<now, issued, hist, obs, otpVars, txn, envVars>>
        /\ IF email = None
             THEN last' = L("TokenError", "invalid_or_expired")
                  /\ UNCHANGED <<users, spent>>
           ELSE IF found = {}
             THEN last' = L("NotFoundError", "no_user") /\ UNCHANGED <<users, spent>>
           ELSE IF user.reset_password_token # token
             THEN last' = L("TokenError", "invalid_token") /\ UNCHANGED <<users, spent>>
           ELSE IF now > user.reset_password_token_expires
             THEN last' = L("TokenError", "token_expired") /\ UNCHANGED <<users, spent>>
           ELSE /\ users' = (users \ {user}) \cup
                      {[user EXCEPT !.hashed_password = get_password_hash(new_password)]}
                /\ spent' = SpentUse(token)
                /\ last' = L("ok", "reset")

\* reset_password that clears the mirrored token when the presented token
\* is not the mirrored one.
reset_password_clears_on_mismatch(token, new_password) ==
    LET email == verify_password_reset_token(token, now)
        found == UserByEmail(email)
        user == CHOOSE u \in found : TRUE
        L(result, log) == Last("reset_password", email, None, None, result, log, 0)
    IN  /\ tok' = token
        /\ UNCHANGED <<now, issued, hist, obs, otpVars, txn, envVars>>
        /\ IF email = None
             THEN last' = L("TokenError", "invalid_or_expired")
                  /\ UNCHANGED <<users, spent>>
           ELSE IF found = {}
             THEN last' = L("NotFoundError", "no_user") /\ UNCHANGED <<users, spent>>
           ELSE IF user.reset_password_token # token
             THEN /\ last' = L("TokenError", "invalid_token")
                  /\ users' = (users \ {user}) \cup
                        {[user EXCEPT !.reset_password_token = NoToken,
                                      !.reset_password_token_expires = NoTime]}
                  /\ UNCHANGED spent
           ELSE IF now > user.reset_password_token_expires
             THEN last' = L("TokenError", "token_expired") /\ UNCHANGED <<users, spent>>
           ELSE /\ users' = (users \ {user}) \cup
                      {[user EXCEPT !.hashed_password = get_password_hash(new_password),
                                    !.reset_password_token = NoToken,
                                    !.reset_password_token_expires = NoTime]}
                /\ spent' = SpentUse(token)
                /\ last' = L("ok", "reset")

\* reset_password without the comparison with the mirrored token.
reset_password_no_mirror(token, new_password) ==
    LET email == verify_password_reset_token(token, now)
        found == UserByEmail(email)
        user == CHOOSE u \in found : TRUE
        L(result, log) == Last("reset_password", email, None, None, result, log, 0)
    IN  /\ tok' = token
        /\ UNCHANGED <<now, issued, hist, obs, otpVars, txn, envVars>>
        /\ IF email = None
             THEN last' = L("TokenError", "invalid_or_expired")
                  /\ UNCHANGED <<users, spent>>
           ELSE IF found = {}
             THEN last' = L("NotFoundError", "no_user") /\ UNCHANGED <<users, spent>>
           ELSE /\ users' = (users \ {user}) \cup
                      {[user EXCEPT !.hashed_password = get_password_hash(new_password),
                                    !.reset_password_token = NoToken,
                                    !.reset_password_token_expires = NoTime]}
                /\ spent' = SpentUse(token)
                /\ last' = L("ok", "reset")

reset_password(token, new_password) ==
    LET email == verify_password_reset_token(token, now)
        found == UserByEmail(email)
        user == CHOOSE u \in found : TRUE
        L(result, log) == Last("reset_password", email, None, None, result, log, 0)
    IN  /\ tok' = token
        /\ UNCHANGED <<now, issued, hist, obs, otpVars, txn, envVars>>
        /\ IF email = None
             THEN last' = L("TokenError", "invalid_or_expired")
                  /\ UNCHANGED <<users, spent>>
           ELSE IF found = {}
             THEN last' = L("NotFoundError", "no_user") /\ UNCHANGED <<users, spent>>
           ELSE IF user.reset_password_token # token
             THEN last' = L("TokenError", "invalid_token") /\ UNCHANGED <<users, spent>>
           ELSE IF now > user.reset_password_token_expires
             THEN last' = L("TokenError", "token_expired") /\ UNCHANGED <<users, spent>>
           ELSE /\ users' = (users \ {user}) \cup
                      {[user EXCEPT !.hashed_password = get_password_hash(new_password),
                                    !.reset_password_token = NoToken,
                                    !.reset_password_token_expires = NoTime]}
                /\ spent' = SpentUse(token)
                /\ last' = L("ok", "reset")

\* The exception a failed call ends in at the HTTP boundary, as the type and
\* the message of the response: the verify-otp route turns a false verify_otp
\* into a TokenError, reset_password and verify_email raise on their own.
Error(type, message) == [type |-> type, message |-> message]

error_response(l) ==
    IF l.op = "verify_otp" /\ l.result = "false"
      THEN Error("TokenError", "Invalid or expired OTP")
    ELSE IF l.op = "reset_password" /\ l.log = "invalid_or_expired"
      THEN Error("TokenError", "Invalid or expired token")
    ELSE IF l.op = "reset_password" /\ l.log = "no_user"
      THEN Error("NotFoundError", "User not found")
    ELSE IF l.op = "reset_password" /\ l.log = "invalid_token"
      THEN Error("TokenError", "Invalid token")
    ELSE IF l.op = "reset_password" /\ l.log = "token_expired"
      THEN Error("TokenError", "Token expired")
    ELSE IF l.op = "verify_email" /\ l.log = "invalid_or_expired"
      THEN Error("TokenError", "Invalid or expired verification token")
    ELSE IF l.op = "verify_email" /\ l.log = "no_user"
      THEN Error("NotFoundError", "User not found")
    ELSE IF l.op = "verify_email" /\ l.log = "already_verified"
      THEN Error("ConflictError", "Email already verified")
    ELSE Error(l.result, None)

\* The HTTP response of a route: the status code and, for an error, the
\* exception type the handler of BaseCustomException reports.
Response(code, type) == [code |-> code, type |-> type]

NoResponse == Response(0, None)

\* The status code each exception class carries.
status_code(type) ==
    IF type = "RateLimitError" THEN 429
    ELSE IF type = "TokenError" THEN 400
    ELSE IF type = "DatabaseError" THEN 500
    ELSE 200

\* POST /auth/otp/request-otp: RateLimitError is raised again, any other
\* exception becomes DatabaseError.
request_otp_response(l) ==
    IF l.result = "ok" THEN Response(200, None)
    ELSE IF l.result = "RateLimitError"
      THEN Response(status_code("RateLimitError"), "RateLimitError")
    ELSE Response(status_code("DatabaseError"), "DatabaseError")

\* POST /auth/request-otp: every exception becomes DatabaseError.
auth_request_otp_response(l) ==
    IF l.result = "ok" THEN Response(200, None)
    ELSE Response(status_code("DatabaseError"), "DatabaseError")

\* POST /auth/otp/verify-otp: a false verify_otp becomes TokenError.
verify_otp_response(l) ==
    IF l.result = "true" THEN Response(200, None)
    ELSE IF l.result = "false" THEN Response(status_code("TokenError"), "TokenError")
    ELSE Response(status_code("DatabaseError"), "DatabaseError")

\* GET /auth/otp/otp-status and POST /auth/otp/cleanup-otps.
plain_response(l) ==
    IF l.result = "ok" THEN Response(200, None)
    ELSE Response(status_code("DatabaseError"), "DatabaseError")

\* ------------------------------------------------- concurrent create_otp
\* Request handlers run create_otp at the same time, each on its own database
\* session (get_db), so each in its own PostgreSQL transaction at the default
\* READ COMMITTED level: a statement sees the rows committed when it starts;
\* a DELETE locks the rows it deletes and waits for a row another open
\* transaction has locked, then skips the row if that transaction deleted it.
Sessions == 1..NumSessions

\* A session: where its call stands, the rows its statement found (targets),
\* the rows it has locked by deleting or updating them (deleted), the row
\* versions its UPDATE writes, and what the call returns.
Idle == [pc |-> "idle", email |-> None, purpose |-> None, code |-> None,
         targets |-> {}, deleted |-> {}, result |-> None,
         write |-> {}, log |-> None, count |-> 0]

LockedByOthers(s) == UNION {txn[q].deleted : q \in Sessions \ {s}}

\* The call starts: the COUNT of check_rate_limit, and RateLimitError.
TxnBegin(s, email, purpose, code) ==
    /\ txn[s].pc \in {"idle", "done"}
    /\ txn' = [txn EXCEPT ![s] =
                 IF ~check_rate_limit(store, email, purpose, now)
                   THEN [Idle EXCEPT !.pc = "done", !.email = email,
                                     !.purpose = purpose,
                                     !.result = "RateLimitError"]
                   ELSE [Idle EXCEPT !.pc = "delete", !.email = email,
                                     !.purpose = purpose, !.code = code]]
    /\ UNCHANGED <<store, now, nextId, seqVars, tokenVars, envVars>>

\* The DELETE statement starts and finds the key's unused rows.
TxnDeleteStart(s) ==
    /\ txn[s].pc = "delete"
    /\ txn' = [txn EXCEPT ![s].pc = "deleting",
                          ![s].targets = {r.id : r \in UnusedOtps(store, txn[s].email,
                                                                  txn[s].purpose)}]
    /\ UNCHANGED <<store, now, nextId, seqVars, tokenVars, envVars>>

\* The DELETE statement ends, once no row it found is locked by another
\* transaction; rows deleted meanwhile are skipped.
TxnDeleteEnd(s) ==
    /\ txn[s].pc = "deleting"
    /\ txn[s].targets \cap LockedByOthers(s) = {}
    /\ txn' = [txn EXCEPT ![s].pc = "insert",
                          ![s].deleted = txn[s].targets \cap {r.id : r \in store}]
    /\ UNCHANGED <<store, now, nextId, seqVars, tokenVars, envVars>>

\* db.add(otp); db.commit(): the delete and the insert become visible.
TxnCommit(s) ==
    /\ txn[s].pc = "insert"
    /\ store' = {r \in store : r.id \notin txn[s].deleted}
                  \cup {OTP(nextId, txn[s].email, txn[s].code, txn[s].purpose,
                            now + ExpiryUnits, now)}
    /\ nextId' = nextId + 1
    /\ txn' = [txn EXCEPT ![s] = [Idle EXCEPT !.pc = "done", !.email = txn[s].email,
                                              !.purpose = txn[s].purpose,
                                              !.code = txn[s].code,
                                              !.result = "ok"]]
    /\ UNCHANGED <<now, seqVars, tokenVars, envVars>>

\* ------------------------------------- concurrent verify_otp and sweeps
\* verify_otp on its own session: the SELECT reads the committed table and
\* takes no lock; the branch is chosen on the row it read.  The row is
\* written when db.commit() flushes: a DELETE or an UPDATE of the row by its
\* primary key, which waits while another transaction holds the row.
VerifyBegin(s, email, purpose, otp_code) ==
    LET found == {r \in UnusedOtps(store, email, purpose) : r.otp_code = otp_code}
        otp == First(found)
        call == [Idle EXCEPT !.email = email, !.purpose = purpose, !.code = otp_code]
    IN  /\ txn[s].pc \in {"idle", "done"}
        /\ txn' = [txn EXCEPT ![s] =
              IF found = {}
                THEN [call EXCEPT !.pc = "done", !.result = "false",
                                  !.log = "no_valid_otp"]
              ELSE IF is_expired(otp, now)
                THEN [call EXCEPT !.pc = "vflush", !.targets = {otp.id},
                                  !.result = "false", !.log = "expired"]
              ELSE IF is_max_attempts_exceeded(otp)
                THEN [call EXCEPT !.pc = "vflush", !.targets = {otp.id},
                                  !.result = "false", !.log = "max_attempts"]
              ELSE [call EXCEPT !.pc = "vflush", !.targets = {otp.id},
                                !.write = {mark_as_used(increment_attempts(otp), now)},
                                !.result = "true", !.log = "verified"]]
        /\ UNCHANGED <<store, now, nextId, seqVars, tokenVars, envVars>>

\* The flush.  A row that is gone matches nothing: the ORM only warns when
\* its DELETE matches no row, and raises StaleDataError when its UPDATE does.
VerifyFlush(s) ==
    LET there == txn[s].targets \cap {r.id : r \in store}
    IN  /\ txn[s].pc = "vflush"
        /\ txn[s].targets \cap LockedByOthers(s) = {}
        /\ txn' = [txn EXCEPT ![s] =
              IF there # {} THEN [txn[s] EXCEPT !.pc = "vcommit", !.deleted = there]
              ELSE IF txn[s].write = {}
                THEN [txn[s] EXCEPT !.pc = "vcommit", !.log = "expired_gone"]
              ELSE [txn[s] EXCEPT !.pc = "done", !.result = "DatabaseError",
                                  !.log = "stale"]]
        /\ UNCHANGED <<store, now, nextId, seqVars, tokenVars, envVars>>

VerifyCommit(s) ==
    /\ txn[s].pc = "vcommit"
    /\ store' = {r \in store : r.id \notin txn[s].deleted}
                  \cup (IF txn[s].deleted = {} THEN {} ELSE txn[s].write)
    /\ txn' = [txn EXCEPT ![s].pc = "done", ![s].deleted = {}]
    /\ UNCHANGED <<now, nextId, seqVars, tokenVars, envVars>>

\* cleanup_expired_otps on its own session: the bulk DELETE finds the expired
\* rows, waits for those another transaction holds, skips the ones that are
\* gone by then, and returns the number it deleted.
SweepBegin(s) ==
    /\ txn[s].pc \in {"idle", "done"}
    /\ txn' = [txn EXCEPT ![s] =
          [Idle EXCEPT !.pc = "sdeleting",
                       !.targets = {r.id : r \in {q \in store : q.expires_at < now}}]]
    /\ UNCHANGED <<store, now, nextId, seqVars, tokenVars, envVars>>

\* The bulk DELETE counting every row it found, gone or not.
SweepDeleteEnd_counts_found(s) ==
    /\ txn[s].pc = "sdeleting"
    /\ txn[s].targets \cap LockedByOthers(s) = {}
    /\ txn' = [txn EXCEPT ![s].pc = "scommit",
                          ![s].deleted = txn[s].targets \cap {r.id : r \in store},
                          ![s].count = Cardinality(txn[s].targets)]
    /\ UNCHANGED <<store, now, nextId, seqVars, tokenVars, envVars>>

SweepDeleteEnd(s) ==
    LET there == txn[s].targets \cap {r.id : r \in store}
    IN  /\ txn[s].pc = "sdeleting"
        /\ txn[s].targets \cap LockedByOthers(s) = {}
        /\ txn' = [txn EXCEPT ![s].pc = "scommit", ![s].deleted = there,
                              ![s].count = Cardinality(there)]
        /\ UNCHANGED <<store, now, nextId, seqVars, tokenVars, envVars>>

SweepCommit(s) ==
    /\ txn[s].pc = "scommit"
    /\ store' = {r \in store : r.id \notin txn[s].deleted}
    /\ txn' = [txn EXCEPT ![s].pc = "done", ![s].deleted = {},
                          ![s].result = "ok", ![s].log = "cleanup"]
    /\ UNCHANGED <<now, nextId, seqVars, tokenVars, envVars>>

\* No get_otp_status call has returned yet.
NoStatus == [exists |-> FALSE, is_used |-> FALSE, is_expired |-> FALSE,
             attempts_remaining |-> -1, expires_at |-> NoTime]

\* The database session starts to behave as f.
Fault(f) ==
    /\ fault' = f
    /\ UNCHANGED <<store, now, nextId, seqVars, tokenVars, txn, mail, status, resp>>

\* The SMTP server goes up or down.
Mail(m) ==
    /\ mail' = m
    /\ UNCHANGED <<store, now, nextId, seqVars, tokenVars, txn, fault, status, resp>>

\* datetime.utcnow() moves on by d units.
Tick(d) ==
    /\ now' = now + d
    /\ UNCHANGED <<store, nextId, last, hist, obs, tokenVars, txn, envVars>>

Init ==
    /\ store = {}
    /\ now = 0
    /\ nextId = 1
    /\ last = Last("init", None, None, None, None, None, 0)
    /\ hist = NoHist
    /\ obs = [k \in Emails \X Purposes |-> NoObs]
    /\ users = {}
    /\ issued = {}
    /\ tok = NoToken
    /\ spent = [used |-> {}, reissued |-> {}]
    /\ txn = [s \in Sessions |-> Idle]
    /\ fault = "none"
    /\ mail = "up"
    /\ status = NoStatus
    /\ resp = NoResponse

\* The calls as a client makes them, with the bookkeeping of what it saw.
Issue(e, p, c) ==
    /\ create_otp(e, p, c)
    /\ hist' = HistCreate(e, p)
    /\ obs' = ObsCreate(e, p, c, last'.result = "ok")
    /\ resp' = request_otp_response(last')
    /\ UNCHANGED <<tokenVars, txn, fault, mail, status>>

\* The same call through POST /auth/request-otp.
IssueAuth(e, p, c) ==
    /\ create_otp(e, p, c)
    /\ hist' = HistCreate(e, p)
    /\ obs' = ObsCreate(e, p, c, last'.result = "ok")
    /\ resp' = auth_request_otp_response(last')
    /\ UNCHANGED <<tokenVars, txn, fault, mail, status>>

Verify(e, p, c) ==
    /\ verify_otp(e, c, p)
    /\ hist' = HistVerify(e, p, c)
    /\ obs' = ObsVerify(e, p, last'.result)
    /\ resp' = verify_otp_response(last')
    /\ UNCHANGED <<tokenVars, txn, fault, mail, status>>

\* GET /otp-status/{email}/{purpose}.
GetStatus(e, p) ==
    /\ status' = get_otp_status(store, e, p, now)
    /\ last' = Last("get_otp_status", e, p, None, "ok", "status", 0)
    /\ hist' = NoHist
    /\ resp' = plain_response(last')
    /\ UNCHANGED <<store, now, nextId, obs, tokenVars, txn, fault, mail>>

SweepExpired ==
    /\ cleanup_expired_otps
    /\ hist' = NoHist
    /\ resp' = plain_response(last')
    /\ UNCHANGED <<obs, tokenVars, txn, fault, mail, status>>

SweepUsed ==
    /\ cleanup_used_otps
    /\ hist' = NoHist
    /\ resp' = plain_response(last')
    /\ UNCHANGED <<obs, tokenVars, txn, fault, mail, status>>

\* ------------------------------------------- sequential OTP specification
\* Calls run one at a time, each to completion.  The clock moves in single
\* units, and then once by the audit window of used OTPs.
Next ==
    \/ \E e \in Emails, p \in Purposes, c \in Codes :
         /\ nextId <= MaxOtps \/ ~check_rate_limit(store, e, p, now)
         /\ Issue(e, p, c)
    \/ \E e \in Emails, p \in Purposes, c \in Codes : Verify(e, p, c)
    \/ SweepExpired
    \/ SweepUsed
    \/ now < MaxTicks /\ Tick(1)
    \/ now < DaysOldUnits /\ Tick(DaysOldUnits)

Spec == Init /\ [][Next]_vars

\* --------------------------------------------- rate-limit specification
\* The same calls for one key, long enough for the hourly ceiling to be
\* reached.  The clock moves in single units, and once by the rate window.
RateEmail == "a@x.com"
RatePurpose == "password_reset"
RateCode == "111111"

NextRate ==
    \/ /\ nextId <= MaxRateOtps \/ ~check_rate_limit(store, RateEmail, RatePurpose, now)
       /\ Issue(RateEmail, RatePurpose, RateCode)
    \/ /\ nextId <= MaxRateOtps \/ ~check_rate_limit(store, RateEmail, RatePurpose, now)
       /\ IssueAuth(RateEmail, RatePurpose, RateCode)
    \/ \E c \in Codes : Verify(RateEmail, RatePurpose, c)
    \/ SweepExpired
    \/ SweepUsed
    \/ now % HourUnits < MaxRateTicks /\ Tick(1)
    \/ now < HourUnits /\ Tick(HourUnits)

SpecRate == Init /\ [][NextRate]_vars

\* ------------------------------------------------- two-key specification
\* Issue, verify and status calls for the two purposes of one address.
NextKeys ==
    \/ \E p \in Purposes :
         /\ nextId <= MaxOtps
         /\ Issue(RateEmail, p, RateCode)
    \/ \E p \in Purposes, c \in Codes : Verify(RateEmail, p, c)
    \/ \E p \in Purposes : GetStatus(RateEmail, p)
    \/ now < MaxTicks /\ Tick(1)

SpecKeys == Init /\ [][NextKeys]_vars

\* ------------------------------------------- database-fault specification
\* The calls for one key, with the code that was sent, on a database session
\* that may fail.  The clock moves once, by the rate window.
NextFault ==
    \/ /\ nextId <= MaxRateOtps \/ ~check_rate_limit(store, RateEmail, RatePurpose, now)
       /\ Issue(RateEmail, RatePurpose, RateCode)
    \/ Verify(RateEmail, RatePurpose, RateCode)
    \/ GetStatus(RateEmail, RatePurpose)
    \/ SweepExpired
    \/ SweepUsed
    \/ \E f \in Faults \ {fault} : Fault(f)
    \/ now < HourUnits /\ Tick(HourUnits)

SpecFault == Init /\ [][NextFault]_vars

\* ------------------------------------------------ signed-token specification
\* Sign-up, login and the token flows, one call at a time.  A caller presents
\* any token the server has issued, or a forged one.  One address signs up;
\* the other stays unknown to the server.  The clock moves in
\* single units, and once by the life of a password-reset token.
SignupEmails == {"a@x.com"}
SignupPassword == "pw1"

NextTok ==
    \/ \E e \in SignupEmails : create_user(e, SignupPassword, RateCode)
    \/ \E e \in UserEmails, pw \in Passwords :
         login(e, pw) /\ Cardinality(issued') <= MaxTokens
    \/ \E e \in UserEmails :
         resend_verification(e) /\ Cardinality(issued') <= MaxTokens
    \/ \E e \in UserEmails :
         forgot_password(e) /\ Cardinality(issued') <= MaxTokens
    \/ \E t \in issued \cup Forged : verify_email(t)
    \/ \E t \in issued \cup Forged, pw \in Passwords : reset_password(t, pw)
    \/ now % HourUnits < MaxTokTicks /\ Tick(1)
    \/ now < HourUnits /\ Tick(HourUnits)

SpecTok == Init /\ [][NextTok]_vars

\* ------------------------------------------- credentials specification
\* Sign-up, login and the requests that mail a token, with an SMTP server
\* that may be down, and the bearer-token check of GET /auth/me given any
\* token the server has issued, or a forged one.
NextAuth ==
    \/ \E e \in SignupEmails : create_user(e, SignupPassword, RateCode)
    \/ \E e \in UserEmails :
         login(e, SignupPassword) /\ Cardinality(issued') <= MaxTokens
    \/ \E e \in UserEmails :
         resend_verification(e) /\ Cardinality(issued') <= MaxTokens
    \/ \E e \in UserEmails :
         forgot_password(e) /\ Cardinality(issued') <= MaxTokens
    \/ \E e \in UserEmails :
         request_password_reset(e) /\ Cardinality(issued') <= MaxTokens
    \/ \E t \in issued \cup Forged : get_current_user(t)
    \/ \E m \in Mails \ {mail} : Mail(m)
    \/ now % HourUnits < MaxTokTicks /\ Tick(1)
    \/ now < DayUnits /\ Tick(DayUnits)

SpecAuth == Init /\ [][NextAuth]_vars

\* ------------------------------------------- concurrent OTP specification
\* Sessions issue OTPs at the same time; the steps of their transactions
\* interleave.
NextConc ==
    \/ \E s \in Sessions, e \in Emails, p \in Purposes, c \in Codes :
         /\ nextId + Cardinality({q \in Sessions : txn[q].pc \notin {"idle", "done"}})
               <= MaxConcOtps
         /\ TxnBegin(s, e, p, c)
    \/ \E s \in Sessions : TxnDeleteStart(s)
    \/ \E s \in Sessions : TxnDeleteEnd(s)
    \/ \E s \in Sessions : TxnCommit(s)

SpecConc == Init /\ [][NextConc]_vars

\* ------------------------------- concurrent verify and sweep specification
\* OTPs for one key are issued while no session is busy; sessions then verify
\* and sweep at the same time.
NextVerify ==
    \/ /\ nextId <= MaxVerifyOtps
       /\ \A s \in Sessions : txn[s].pc \in {"idle", "done"}
       /\ Issue(RateEmail, RatePurpose, RateCode)
    \/ \E s \in Sessions : VerifyBegin(s, RateEmail, RatePurpose, RateCode)
    \/ \E s \in Sessions : VerifyFlush(s)
    \/ \E s \in Sessions : VerifyCommit(s)
    \/ \E s \in Sessions : SweepBegin(s)
    \/ \E s \in Sessions : SweepDeleteEnd(s)
    \/ \E s \in Sessions : SweepCommit(s)
    \/ now < MaxTicks /\ Tick(1)

SpecVerify == Init /\ [][NextVerify]_vars

\* ------------------------------------------------ cleanup specification
\* OTPs are issued for one key for a while; the clock keeps moving until the last of them
\* has expired, and the sweeps keep being run: the scheduled task that calls
\* POST /cleanup-otps is not starved.
ClockMoves == now < MaxTicks + ExpiryUnits + 1 /\ Tick(1)

NextLive ==
    \/ /\ nextId <= MaxOtps /\ now < MaxTicks
       /\ Issue(RateEmail, RatePurpose, RateCode)
    \/ \E c \in Codes : Verify(RateEmail, RatePurpose, c)
    \/ SweepExpired
    \/ SweepUsed
    \/ ClockMoves

SpecLive ==
    /\ Init /\ [][NextLive]_vars
    /\ WF_vars(ClockMoves)
    /\ WF_vars(SweepExpired)
    /\ WF_vars(SweepUsed)

\* ================================================================ claims

\* C1: after a successful create_otp for a key exactly one unused row exists
\* for that key, and no key ever has more than one unused row.
C1_SingleActive ==
    /\ \A e \in Emails, p \in Purposes :
         Cardinality({r \in store : r.email = e /\ r.purpose = p /\ ~r.is_used}) <= 1
    /\ (last.op = "create_otp" /\ last.result = "ok") =>
         Cardinality({r \in store : /\ r.email = last.email
                                    /\ r.purpose = last.purpose
                                    /\ ~r.is_used}) = 1

\* create_otp succeeded twice in a row for one key, the first row still unused.
C1_Witness ==
    /\ last.op = "create_otp" /\ last.result = "ok"
    /\ hist.issues >= 2
    /\ Cardinality(store) = 1

\* C2: the first verify_otp with the issued code on the key's unexpired,
\* non-exhausted row returns true; once a verify_otp returned true for the key,
\* every verify_otp for it returns false until create_otp succeeds again.
C2_OneTimeUse ==
    [][( /\ last'.op = "verify_otp"
         /\ verify_otp(last'.email, last'.code, last'.purpose) ) =>
           LET e == last'.email
               p == last'.purpose
               c == last'.code
               k == <<e, p>>
               fresh == {r \in store : /\ r.email = e /\ r.purpose = p
                                       /\ ~r.is_used /\ r.otp_code = c
                                       /\ now <= r.expires_at
                                       /\ r.attempts < r.max_attempts}
           IN  /\ (obs[k].code = c /\ ~obs[k].won /\ fresh # {}) => last'.result = "true"
               /\ obs[k].won => last'.result = "false"]_vars

\* The issued code was accepted once and then submitted again, in vain.
C2_Witness ==
    /\ last.op = "verify_otp" /\ last.result = "false"
    /\ obs[<<last.email, last.purpose>>].won
    /\ obs[<<last.email, last.purpose>>].code = last.code

\* C3: MaxAttempts wrong-code verify_otp calls after a create_otp, and the call
\* after them whatever its code, all return false, and after that call
\* get_otp_status reports that no row exists.
C3_BoundedAttempts ==
    (last.op = "verify_otp" /\ hist.wrongs >= 1) =>
        /\ last.result = "false"
        /\ hist.wrongs = MaxAttempts + 1 =>
             ~get_otp_status(store, last.email, last.purpose, now).exists

\* C4: the create_otp call that follows MaxOtpsPerHour create_otp calls made in
\* a row for one key within one hour raises RateLimitError and inserts nothing.
C4_SixthIssueBlocked ==
    [][( /\ last'.op = "create_otp"
         /\ \E c \in Codes : create_otp(last'.email, last'.purpose, c)
         /\ last.op = "create_otp"
         /\ last.email = last'.email /\ last.purpose = last'.purpose
         /\ hist.issues >= MaxOtpsPerHour
         /\ hist.since >= now - HourUnits )
         => (last'.result = "RateLimitError" /\ store' = store)]_vars

\* C5: verify_otp for a key whose unused row has expires_at in the past
\* returns false whatever the code, and cleanup_expired_otps leaves no row
\* with expires_at in the past.
C5_ExpiredNeverVerifies ==
    /\ [][( /\ last'.op = "verify_otp"
            /\ verify_otp(last'.email, last'.code, last'.purpose)
            /\ \A r \in store : ( /\ r.email = last'.email
                                  /\ r.purpose = last'.purpose
                                  /\ ~r.is_used ) => r.expires_at < now )
            => last'.result = "false"]_vars
    /\ [][( /\ last'.op = "cleanup_expired_otps"
            /\ cleanup_expired_otps )
            => \A r \in store' : ~(r.expires_at < now')]_vars

\* The right code was refused because its row had expired, and another expired
\* row is still there for the sweep.
C5_Witness ==
    /\ last.op = "verify_otp" /\ last.log = "expired"
    /\ last.code = obs[<<last.email, last.purpose>>].code
    /\ \E r \in store : r.expires_at < now

\* C6: verify_password_reset_token returns a subject only for a token whose
\* purpose is password_reset, and verify_verification_token only for one
\* whose purpose is email_verification; reset_password and verify_email
\* answer a token of another purpose with TokenError.
C6_PurposeIsolation ==
    /\ \A t \in issued \cup Forged :
         /\ verify_verification_token(t, now) # None => t.purpose = "email_verification"
         /\ verify_password_reset_token(t, now) # None => t.purpose = "password_reset"
    /\ (last.op = "reset_password" /\ tok.purpose # "password_reset")
          => last.result = "TokenError"
    /\ (last.op = "verify_email" /\ tok.purpose # "email_verification")
          => last.result = "TokenError"

\* reset_password refused an issued, unexpired e-mail verification token.
C6_Witness ==
    /\ last.op = "reset_password" /\ last.result = "TokenError"
    /\ tok \in issued /\ tok.purpose = "email_verification" /\ tok.exp >= now
    /\ UserByEmail(tok.sub) # {}

\* C7 as stated: a successful reset_password clears the mirrored token and
\* expiry, and every later reset_password with the same token fails with
\* TokenError and changes no user row.
C7_NeverAgain ==
    [][( /\ last'.op = "reset_password"
         /\ \E pw \in Passwords : reset_password(tok', pw) ) =>
           /\ last'.result = "ok" =>
                \A u \in users' : u.email = tok'.sub =>
                    /\ u.reset_password_token = NoToken
                    /\ u.reset_password_token_expires = NoTime
           /\ tok' \in spent.used =>
                (last'.result = "TokenError" /\ users' = users)]_vars

\* C7 as amended: the later calls fail until a later password-reset request
\* for the user generates the same token string again.
C7_OneTimeUse ==
    [][( /\ last'.op = "reset_password"
         /\ \E pw \in Passwords : reset_password(tok', pw) ) =>
           /\ last'.result = "ok" =>
                \A u \in users' : u.email = tok'.sub =>
                    /\ u.reset_password_token = NoToken
                    /\ u.reset_password_token_expires = NoTime
           /\ tok' \in spent.used \ spent.reissued =>
                (last'.result = "TokenError" /\ users' = users)]_vars

\* A token reset_password had accepted was presented again, within its signed
\* expiry, and refused.
C7_Witness ==
    /\ last.op = "reset_password" /\ last.result = "TokenError"
    /\ tok \in spent.used \ spent.reissued
    /\ now <= tok.exp

\* C8: while a reset token is mirrored on the user, reset_password with
\* another issued reset token of that user fails and changes no user row, and
\* reset_password with the mirrored, unexpired token succeeds and sets the
\* password.
C8_SupersededRejected ==
    [][\A pw \in Passwords :
         ( /\ last'.op = "reset_password"
           /\ reset_password(tok', pw)
           /\ tok' \in issued /\ tok'.purpose = "password_reset" ) =>
           \A u \in UserByEmail(tok'.sub) :
             /\ (u.reset_password_token # NoToken /\ u.reset_password_token # tok')
                  => (last'.result = "TokenError" /\ users' = users)
             /\ (u.reset_password_token = tok' /\ now <= tok'.exp)
                  => /\ last'.result = "ok"
                     /\ \A v \in users' : v.email = tok'.sub =>
                            v.hashed_password = get_password_hash(pw)]_vars

\* An unexpired reset token was refused because a newer one is mirrored.
C8_Witness ==
    /\ last.op = "reset_password" /\ last.log = "invalid_token"
    /\ tok \in issued /\ tok.purpose = "password_reset" /\ now <= tok.exp
    /\ \E u \in users : /\ u.email = tok.sub
                        /\ u.reset_password_token # NoToken
                        /\ u.reset_password_token.exp > tok.exp
                        /\ now <= u.reset_password_token.exp

\* C9: whatever the interleaving of concurrent create_otp calls for one key,
\* the committed table never holds two unused rows for the key, and once all
\* calls have completed it holds exactly one.
C9_ConcurrentSingleActive ==
    \A e \in Emails, p \in Purposes :
      LET unused == {r \in store : r.email = e /\ r.purpose = p /\ ~r.is_used}
      IN  /\ Cardinality(unused) <= 1
          /\ ( /\ \A s \in Sessions : txn[s].pc \in {"idle", "done"}
               /\ \E s \in Sessions : txn[s].result = "ok" /\ txn[s].email = e
                                      /\ txn[s].purpose = p )
             => Cardinality(unused) = 1

\* C10: a create_otp that raises RateLimitError leaves the table as it was;
\* the key's unused row is still there.
C10_RateLimitedChangesNothing ==
    [][( /\ last'.op = "create_otp" /\ last'.result = "RateLimitError"
         /\ \E c \in Codes : create_otp(last'.email, last'.purpose, c) )
         => (store' = store /\ nextId' = nextId)]_vars

\* create_otp was refused while the key holds an unused, unexpired row.
C10_Witness ==
    /\ last.op = "create_otp" /\ last.result = "RateLimitError"
    /\ \E r \in store : /\ r.email = last.email /\ r.purpose = last.purpose
                        /\ ~r.is_used /\ now <= r.expires_at

\* C11: when the count of check_rate_limit raises, create_otp is not refused
\* and, the later statements running, inserts a row; when the count succeeds
\* create_otp raises RateLimitError if it is MaxOtpsPerHour or more and
\* succeeds if it is less.
C11_FailOpen ==
    [][( /\ last'.op = "create_otp"
         /\ \E c \in Codes : create_otp(last'.email, last'.purpose, c) ) =>
           LET recent == {r \in store : /\ r.email = last'.email
                                         /\ r.purpose = last'.purpose
                                         /\ r.created_at >= now - HourUnits}
               added == {r \in store' : r.id = nextId}
           IN  /\ QueryFails => last'.result # "RateLimitError"
               /\ fault = "query" => (last'.result = "ok" /\ Cardinality(added) = 1)
               /\ (~QueryFails /\ Cardinality(recent) >= MaxOtpsPerHour)
                     => (last'.result = "RateLimitError" /\ store' = store)
               /\ (fault = "none" /\ Cardinality(recent) < MaxOtpsPerHour)
                     => (last'.result = "ok" /\ Cardinality(added) = 1)]_vars

\* create_otp inserted a row for a key that already had MaxOtpsPerHour rows
\* within the hour: the count had raised.
C11_Witness ==
    /\ last.op = "create_otp" /\ last.result = "ok"
    /\ Cardinality({r \in store : /\ r.email = last.email
                                  /\ r.purpose = last.purpose
                                  /\ r.created_at >= now - HourUnits}) > MaxOtpsPerHour

\* C12: get_otp_status for a key without rows, and get_otp_status whose
\* lookup raises, return exists = false, is_used = false, is_expired = false
\* and attempts_remaining = 0, and the call does not raise.
C12_StatusOfNothing ==
    [][( /\ last'.op = "get_otp_status"
         /\ GetStatus(last'.email, last'.purpose) ) =>
           /\ last'.result = "ok"
           /\ ( \/ QueryFails
                \/ ~\E r \in store : /\ r.email = last'.email
                                      /\ r.purpose = last'.purpose )
                => /\ status'.exists = FALSE
                   /\ status'.is_used = FALSE
                   /\ status'.is_expired = FALSE
                   /\ status'.attempts_remaining = 0]_vars

\* get_otp_status was asked about a key whose rows are there while the lookup
\* fails, and answered that none exists.
C12_Witness ==
    /\ last.op = "get_otp_status"
    /\ QueryFails
    /\ status.exists = FALSE /\ status.attempts_remaining = 0
    /\ \E r \in store : r.email = last.email /\ r.purpose = last.purpose

\* C13: a sweep (cleanup_expired_otps or cleanup_used_otps) removes a used row
\* only once DaysOldUnits have passed since its used_at.
C13_UsedRetained ==
    [][( /\ last'.op \in {"cleanup_expired_otps", "cleanup_used_otps"}
         /\ (cleanup_expired_otps \/ cleanup_used_otps) ) =>
           \A r \in store \ store' :
               r.is_used => now >= r.used_at + DaysOldUnits]_vars

\* C14: a failed verify_otp, reset_password or verify_email ends in the same
\* error, type and message, whatever made it fail: for reset_password and
\* verify_email the error of a token that does not decode.
C14_UniformFailure ==
    /\ (last.op = "verify_otp" /\ last.result = "false")
          => error_response(last) = Error("TokenError", "Invalid or expired OTP")
    /\ (last.op = "reset_password" /\ last.result # "ok")
          => error_response(last) = Error("TokenError", "Invalid or expired token")
    /\ (last.op = "verify_email" /\ last.log \in {"invalid_or_expired", "no_user"})
          => error_response(last) =
                Error("TokenError", "Invalid or expired verification token")

\* C15: a successful verify_email sets is_verified and clears
\* verification_token and verification_token_expires; verify_email for a
\* verified user fails whatever valid token it is given and changes no user
\* row; a verified user stays verified with the token cleared.
C15_VerifiedIsTerminal ==
    /\ [][( /\ last'.op = "verify_email"
            /\ verify_email(tok') ) =>
              /\ last'.result = "ok" =>
                   \A u \in users' : u.email = last'.email =>
                       /\ u.is_verified
                       /\ u.verification_token = NoToken
                       /\ u.verification_token_expires = NoTime
              /\ (\E u \in users : /\ u.email = verify_verification_token(tok', now)
                                    /\ u.is_verified)
                   => (last'.result # "ok" /\ users' = users)]_vars
    /\ [][\A u \in users : u.is_verified =>
             \E v \in users' : /\ v.email = u.email /\ v.is_verified
                               /\ v.verification_token = NoToken
                               /\ v.verification_token_expires = NoTime]_vars

\* verify_email refused an issued, unexpired verification token of a user
\* who is verified already.
C15_Witness ==
    /\ last.op = "verify_email" /\ last.result = "ConflictError"
    /\ tok \in issued /\ tok.purpose = "email_verification" /\ now <= tok.exp
    /\ \E u \in users : u.email = tok.sub /\ u.is_verified /\ u.verification_token = NoToken

\* C16: with the SMTP server down, create_user still succeeds and leaves the
\* user row and the OTP row create_otp committed, and request_password_reset
\* still succeeds and leaves the reset token and its expiry mirrored on the
\* user.
C16_NotifierFailureKeepsIssue ==
    /\ [][( /\ mail = "down"
            /\ last'.op = "create_user"
            /\ UserByEmail(last'.email) = {}
            /\ \E pw \in Passwords, c \in Codes : create_user(last'.email, pw, c) ) =>
              /\ last'.result = "ok"
              /\ \E u \in users' : u.email = last'.email
              /\ \E r \in store' : /\ r.id = nextId /\ r.email = last'.email
                                    /\ r.purpose = "email_verification"
                                    /\ ~r.is_used /\ r.expires_at = now + ExpiryUnits]_vars
    /\ [][( /\ mail = "down"
            /\ last'.op = "request_password_reset"
            /\ UserByEmail(last'.email) # {}
            /\ request_password_reset(last'.email) ) =>
              /\ last'.result = "true"
              /\ \A u \in users' : u.email = last'.email =>
                    /\ u.reset_password_token =
                          generate_password_reset_token(last'.email, now)
                    /\ u.reset_password_token_expires = now + HourUnits]_vars

\* create_user returned the new user although the OTP mail failed; the OTP
\* row is in the table.
C16_Witness ==
    /\ last.op = "create_user" /\ last.result = "ok" /\ last.log = "otp_send_failed"
    /\ \E u \in users : u.email = last.email
    /\ \E r \in store : /\ r.email = last.email /\ r.purpose = "email_verification"
                        /\ ~r.is_used

\* C17: verify_otp with a wrong code for a key whose unused row is unexpired
\* and has attempts < max_attempts returns false, adds exactly 1 to the row's
\* attempts and leaves it unused.
C17_WrongCodeCounts ==
    [][( /\ last'.op = "verify_otp"
         /\ verify_otp(last'.email, last'.code, last'.purpose) ) =>
           \A r \in UnusedOtps(store, last'.email, last'.purpose) :
             ( /\ r.otp_code # last'.code
               /\ now <= r.expires_at
               /\ r.attempts < r.max_attempts ) =>
                 /\ last'.result = "false"
                 /\ \E q \in store' : /\ q.id = r.id
                                       /\ q.attempts = r.attempts + 1
                                       /\ ~q.is_used]_vars

\* C18: after create_otp for (identity, password_reset) and MaxAttempts
\* verify_otp calls with wrong codes, all of them returned false, the row is
\* deleted and get_otp_status reports exists = false.
C18_ExhaustionScenario ==
    ( /\ last.op = "verify_otp" /\ last.purpose = "password_reset"
      /\ hist.wrongs >= 1 ) =>
        /\ last.result = "false"
        /\ hist.wrongs = MaxAttempts =>
             /\ UnusedOtps(store, last.email, last.purpose) = {}
             /\ ~get_otp_status(store, last.email, last.purpose, now).exists

\* C19: verify_otp for a key whose unused row has expired returns false
\* whatever the code, and the expired row is gone from the table afterwards.
C19_ExpiredDeletedOnVerify ==
    [][( /\ last'.op = "verify_otp"
         /\ verify_otp(last'.email, last'.code, last'.purpose) ) =>
           \A r \in UnusedOtps(store, last'.email, last'.purpose) :
             r.expires_at < now =>
               /\ last'.result = "false"
               /\ ~\E q \in store' : q.id = r.id]_vars

\* C20: get_current_user accepts only a login access token, which carries no
\* purpose; verify_email accepts only an email_verification token and
\* reset_password only a password_reset token.
C20_PurposeBoundEverywhere ==
    /\ (last.op = "get_current_user" /\ last.result = "ok") => tok.purpose = None
    /\ (last.op = "verify_email" /\ last.result \notin {"TokenError"})
          => tok.purpose = "email_verification"
    /\ (last.op = "reset_password" /\ last.result \notin {"TokenError"})
          => tok.purpose = "password_reset"

\* C21: when db.commit() fails in create_otp, after the delete of the key's
\* unused rows, or in verify_otp, the call raises DatabaseError and the table
\* is as it was before the call.
C21_AtomicOnStoreFailure ==
    /\ [][( /\ last'.op = "create_otp"
            /\ \E c \in Codes : create_otp(last'.email, last'.purpose, c)
            /\ fault = "commit"
            /\ check_rate_limit(store, last'.email, last'.purpose, now) )
            => (last'.result = "DatabaseError" /\ store' = store)]_vars
    /\ [][( /\ last'.op = "verify_otp"
            /\ verify_otp(last'.email, last'.code, last'.purpose)
            /\ fault = "commit"
            /\ \E r \in UnusedOtps(store, last'.email, last'.purpose) :
                   r.otp_code = last'.code )
            => (last'.result = "DatabaseError" /\ store' = store)]_vars

\* The commit of create_otp failed; the key's previous unused row, which the
\* call had deleted in its transaction, is in the table.
C21_Witness ==
    /\ last.op = "create_otp" /\ last.log = "commit_failed"
    /\ \E r \in store : /\ r.email = last.email /\ r.purpose = last.purpose
                        /\ ~r.is_used /\ r.attempts = 0

\* C22: when the database fails during a sweep, cleanup_expired_otps and
\* cleanup_used_otps both return 0 and raise nothing.
C22_SweepFailureSwallowed ==
    [][( /\ last'.op \in {"cleanup_expired_otps", "cleanup_used_otps"}
         /\ (cleanup_expired_otps \/ cleanup_used_otps)
         /\ fault # "none" )
         => (last'.result = "ok" /\ last'.count = 0)]_vars

\* C23: a verify_otp that read an expired row and a concurrent
\* cleanup_expired_otps both complete without raising, the verify_otp returns
\* false, and the sweep returns the number of rows it removed itself: a row
\* verify_otp deleted first is not counted.
C23_SweepVerifyConcurrent ==
    /\ [](\A s \in Sessions :
            (txn[s].pc = "done" /\ txn[s].log \in {"expired", "expired_gone"})
               => txn[s].result = "false")
    /\ [][\A s \in Sessions :
            (txn[s].pc = "scommit" /\ SweepCommit(s)) =>
               /\ txn'[s].result = "ok"
               /\ txn'[s].count = Cardinality(store \ store')]_vars
    /\ [][\A s \in Sessions :
            (txn[s].pc = "vcommit" /\ VerifyCommit(s)
               /\ txn[s].log \in {"expired", "expired_gone"}) =>
               /\ Cardinality(store \ store') <= 1
               /\ \A r \in store \ store' : r.id \in txn[s].targets]_vars

\* verify_otp read an expired row that a sweep then deleted and counted; the
\* verify_otp returned false.
C23_Witness ==
    \E s \in Sessions, q \in Sessions :
        /\ txn[s].pc = "done" /\ txn[s].log = "expired_gone" /\ txn[s].result = "false"
        /\ txn[q].pc = "done" /\ txn[q].log = "cleanup" /\ txn[q].count >= 1

\* C26: of two concurrent verify_otp calls that submit the right code for the
\* same unused row, at most one returns true.
C26_ConcurrentOneTimeUse ==
    \A s \in Sessions, q \in Sessions :
        ( /\ s # q
          /\ txn[s].pc = "done" /\ txn[s].log = "verified"
          /\ txn[q].pc = "done" /\ txn[q].log = "verified"
          /\ txn[s].targets = txn[q].targets )
        => ~(txn[s].result = "true" /\ txn[q].result = "true")

\* C24: with the clock moving and the sweeps being run again and again, every
\* row that is in the table is gone from it at some later time.
C24_EventualRemoval ==
    \A i \in 1..MaxOtps :
        (\E r \in store : r.id = i) ~> ~(\E r \in store : r.id = i)

\* A sweep has just removed the last rows of the table, a used one among
\* those issued.
C24_Witness ==
    /\ last.op = "cleanup_expired_otps" /\ last.count >= 1
    /\ store = {} /\ nextId > 1
    /\ \E k \in Emails \X Purposes : obs[k].won

\* C25: forgot_password gives the same success response whether or not a
\* user has the address; for an unknown address it changes nothing, and the
\* only user row it writes is that of the address.
C25_NoEnumeration ==
    [][( /\ last'.op = "forgot_password"
         /\ forgot_password(last'.email) ) =>
           /\ last'.result = "ok"
           /\ UserByEmail(last'.email) = {} =>
                 /\ users' = users /\ issued' = issued /\ store' = store
           /\ \A u \in users' \ users :
                 /\ u.email = last'.email
                 /\ UserByEmail(last'.email) # {}]_vars

\* forgot_password was called for an address without user while another
\* address has one, and answered as for a user.
C25_Witness ==
    /\ last.op = "forgot_password" /\ last.result = "ok" /\ last.log = "no_user"
    /\ users # {}
    /\ UserByEmail(last.email) = {}

\* C27: a RateLimitError of create_otp reaches the caller of either
\* request-otp route as RateLimitError with HTTP status 429.
C27_RateLimitReachesCaller ==
    (last.op = "create_otp" /\ last.result = "RateLimitError")
        => resp = Response(429, "RateLimitError")

\* C28: create_otp, verify_otp and get_otp_status for a key leave the rows of
\* every other key as they are.
C28_KeyIsolation ==
    [][( \/ /\ last'.op = "create_otp"
            /\ \E c \in Codes : create_otp(last'.email, last'.purpose, c)
         \/ /\ last'.op = "verify_otp"
            /\ verify_otp(last'.email, last'.code, last'.purpose)
         \/ /\ last'.op = "get_otp_status"
            /\ GetStatus(last'.email, last'.purpose) ) =>
           {r \in store : r.email # last'.email \/ r.purpose # last'.purpose}
             = {r \in store' : r.email # last'.email \/ r.purpose # last'.purpose}]_vars

\* A code was verified for one purpose after an OTP had been issued for the
\* other purpose of the address, whose row is untouched.
C28_Witness ==
    /\ last.op = "verify_otp" /\ last.result = "true"
    /\ \E r1 \in store, r2 \in store :
          /\ r1.email = last.email /\ r1.purpose = last.purpose /\ r1.is_used
          /\ r2.email = last.email /\ r2.purpose # last.purpose
          /\ r2.id > r1.id /\ ~r2.is_used /\ r2.attempts = 0

\* C29: every stored row has 0 <= attempts <= max_attempts, and a used row
\* has used_at set and at least one attempt; is_used never returns to false;
\* get_otp_status reports attempts_remaining between 0 and max_attempts.
C29_RowInvariants ==
    /\ [](/\ \A r \in store :
               /\ 0 <= r.attempts /\ r.attempts <= r.max_attempts
               /\ r.is_used => (r.used_at # NoTime /\ r.attempts >= 1)
           /\ \A e \in Emails, p \in Purposes :
               LET s == get_otp_status(store, e, p, now)
               IN  0 <= s.attempts_remaining /\ s.attempts_remaining <= MaxAttempts
           /\ status # NoStatus =>
               (0 <= status.attempts_remaining
                  /\ status.attempts_remaining <= MaxAttempts))
    /\ [][\A r \in store : r.is_used =>
              \A q \in store' : q.id = r.id => q.is_used]_vars

\* get_otp_status reported a used row that spent one attempt of its budget.
C29_Witness ==
    /\ last.op = "get_otp_status"
    /\ status # NoStatus /\ status.exists /\ status.is_used
    /\ status.attempts_remaining = MaxAttempts - 1
    /\ \E r \in store :
          /\ r.email = last.email /\ r.purpose = last.purpose
          /\ r.is_used /\ r.attempts = 1 /\ r.used_at # NoTime

\* C30: the hashed_password of a user changes only in a reset_password call
\* given a signed password_reset token that equals the stored
\* reset_password_token before the stored expiry; a reset_password call that
\* fails leaves hashed_password, reset_password_token and
\* reset_password_token_expires as they were.
C30_PasswordChangesOnlyOnReset ==
    [][/\ \A u \in users, v \in users' :
            (v.email = u.email /\ v.hashed_password # u.hashed_password) =>
              /\ last'.op = "reset_password" /\ last'.result = "ok"
              /\ verify_password_reset_token(tok', now) = u.email
              /\ u.reset_password_token = tok'
              /\ now <= u.reset_password_token_expires
       /\ ( /\ last'.op = "reset_password" /\ last'.result # "ok"
            /\ \E pw \in Passwords : reset_password(tok', pw) ) =>
              \A u \in users : \E v \in users' :
                  /\ v.email = u.email
                  /\ v.hashed_password = u.hashed_password
                  /\ v.reset_password_token = u.reset_password_token
                  /\ v.reset_password_token_expires = u.reset_password_token_expires]_vars

\* reset_password refused a signed password_reset token that is not the stored
\* one; the password of sign-up, the stored token and its expiry are in place.
C30_Witness ==
    /\ last.op = "reset_password" /\ last.log = "invalid_token"
    /\ tok.sig = "valid" /\ tok.purpose = "password_reset"
    /\ \E u \in users :
          /\ u.email = tok.sub
          /\ u.hashed_password = get_password_hash(SignupPassword)
          /\ u.reset_password_token # NoToken
          /\ u.reset_password_token # tok
          /\ u.reset_password_token_expires # NoTime

====
